---------------------------- MODULE Spec2Model ----------------------------
(***************************************************************************)
(* Model of src/core/utils.rs of universal-android-debloater: the package  *)
(* reconciliation (fetch_packages), the backup name (generate_backup_name) *)
(* and the two exports (export_selection, export_packages).                *)
(*                                                                         *)
(* A string is a sequence of ASCII code points (Rust's String restricted   *)
(* to ASCII), so that to_lowercase, the byte-wise ordering of strings,     *)
(* str::lines, str::replace and the CSV quoting are computed, not assumed. *)
(***************************************************************************)
EXTENDS Integers, Sequences, FiniteSets, TLC

VARIABLES
    all_system_packages,       \* list_all_system_packages(user_id): the raw listing
    enabled_system_packages,   \* hashset_system_packages(Enabled, user_id)
    disabled_system_packages,  \* hashset_system_packages(Disabled, user_id)
    uad_lists,                 \* the PackageHashMap: name -> entry
    user_package,              \* the Vec<PackageRow> fetch_packages returned
    fetched,                   \* whether fetch_packages has returned
    phone_packages,            \* the Vec<Vec<PackageRow>> of the GUI, a list per user
    fs,                        \* the working directory: file name -> file
    tasks                      \* the export calls: their place and their locals

fetchVars == <<all_system_packages, enabled_system_packages,
               disabled_system_packages, uad_lists, user_package, fetched>>

exportVars == <<phone_packages, fs, tasks>>

vars == <<fetchVars, exportVars>>

----------------------------------------------------------------------------
(* Characters *)

LF == 10
CR == 13
SP == 32
QUOTE == 34
COMMA == 44

\* "[No description]: CONTRIBUTION WELCOMED"
NO_DESCRIPTION ==
    <<91, 78, 111, 32, 100, 101, 115, 99, 114, 105, 112, 116, 105, 111, 110, 93,
      58, 32, 67, 79, 78, 84, 82, 73, 66, 85, 84, 73, 79, 78, 32, 87, 69, 76,
      67, 79, 77, 69, 68>>

\* "selection_export.txt"
EXPORT_FILE_NAME ==
    <<115, 101, 108, 101, 99, 116, 105, 111, 110, 95, 101, 120, 112, 111, 114,
      116, 46, 116, 120, 116>>

----------------------------------------------------------------------------
(* Strings *)

\* All the strings over alphabet of length at most n.
RECURSIVE StringsUpTo(_, _)
StringsUpTo(alphabet, n) ==
    IF n = 0 THEN {<<>>}
    ELSE LET shorter == StringsUpTo(alphabet, n - 1)
         IN  shorter \cup {Append(s, c) : s \in shorter, c \in alphabet}

\* char::to_ascii_lowercase, which is str::to_lowercase on ASCII.
LowerChar(c) == IF c >= 65 /\ c <= 90 THEN c + 32 ELSE c

to_lowercase(s) == [i \in 1..Len(s) |-> LowerChar(s[i])]

Min(a, b) == IF a <= b THEN a ELSE b

\* Ord for String: byte-wise lexicographic, a proper prefix is the smaller.
cmp(a, b) ==
    LET n == Min(Len(a), Len(b))
        diff == {i \in 1..n : a[i] # b[i]}
    IN  IF diff = {}
        THEN IF Len(a) < Len(b) THEN "Less"
             ELSE IF Len(a) > Len(b) THEN "Greater" ELSE "Equal"
        ELSE LET i == CHOOSE k \in diff : \A j \in diff : k <= j
             IN  IF a[i] < b[i] THEN "Less" ELSE "Greater"

\* The position of the first c in s, 0 when there is none.
Find(s, c) ==
    LET at == {i \in 1..Len(s) : s[i] = c}
    IN  IF at = {} THEN 0 ELSE CHOOSE k \in at : \A j \in at : k <= j

\* str::split_inclusive('\n'): the pieces keep their terminator, and there is
\* no empty piece after a final terminator.
RECURSIVE split_inclusive(_)
split_inclusive(s) ==
    IF s = <<>> THEN <<>>
    ELSE LET i == Find(s, LF)
         IN  IF i = 0 THEN <<s>>
             ELSE <<SubSeq(s, 1, i)>> \o split_inclusive(SubSeq(s, i + 1, Len(s)))

\* The map of str::lines: strip one "\n", and only then one "\r", so that a
\* "\r" that ends the listing without a "\n" stays in the last line.
LinesMap(line) ==
    IF line = <<>> \/ line[Len(line)] # LF THEN line
    ELSE LET l1 == SubSeq(line, 1, Len(line) - 1)
         IN  IF l1 = <<>> \/ l1[Len(l1)] # CR THEN l1
             ELSE SubSeq(l1, 1, Len(l1) - 1)

\* str::lines
lines(s) ==
    LET pieces == split_inclusive(s)
    IN  [i \in 1..Len(pieces) |-> LinesMap(pieces[i])]

----------------------------------------------------------------------------
(* fetch_packages *)

\* The values every iteration of the loop starts from.
LoopDefaults ==
    [state |-> "Uninstalled", description |-> NO_DESCRIPTION,
     uad_list |-> "Unlisted", removal |-> "Unlisted"]

\* A loop that declares its locals once and does not reset them.
KeepLocals(locals) == locals

\* The four assignments at the top of the loop body.
ResetLocals(locals) == LoopDefaults

\* `if let Some(package) = uad_lists.get(p_name)`
ApplyUadEntry(locals, lists, p_name) ==
    IF p_name \in DOMAIN lists
    THEN LET package == lists[p_name]
         IN  [locals EXCEPT
                !.description = IF package.description # <<>>
                                THEN package.description ELSE @,
                !.uad_list = package.list,
                !.removal = package.removal]
    ELSE locals

\* State decided by the disabled set first.
DisabledFirst(locals, enabled, disabled, p_name) ==
    IF p_name \in disabled THEN [locals EXCEPT !.state = "Disabled"]
    ELSE IF p_name \in enabled THEN [locals EXCEPT !.state = "Enabled"]
    ELSE locals

\* `if enabled.contains(p_name) .. else if disabled.contains(p_name) ..`
ApplyState(locals, enabled, disabled, p_name) ==
    IF p_name \in enabled THEN [locals EXCEPT !.state = "Enabled"]
    ELSE IF p_name \in disabled THEN [locals EXCEPT !.state = "Disabled"]
    ELSE locals

\* PackageRow::new(p_name, state, description, uad_list, removal, false, false)
PackageRowNew(p_name, locals) ==
    [name |-> p_name, state |-> locals.state, description |-> locals.description,
     uad_list |-> locals.uad_list, removal |-> locals.removal,
     selected |-> FALSE, marked |-> FALSE]

\* One iteration of the loop: the locals after it; the row is built from them.
LoopBody(locals, lists, enabled, disabled, p_name) ==
    ApplyState(ApplyUadEntry(ResetLocals(locals), lists, p_name),
               enabled, disabled, p_name)

\* The loop over the first n lines: the locals as the n-th iteration leaves them.
RECURSIVE LocalsAfter(_, _, _, _, _)
LocalsAfter(names, n, lists, enabled, disabled) ==
    IF n = 0 THEN LoopDefaults
    ELSE LoopBody(LocalsAfter(names, n - 1, lists, enabled, disabled),
                  lists, enabled, disabled, names[n])

\* A loop that pushes a row only for a name it has not seen yet.
CollectDistinct(names, lists, enabled, disabled) ==
    LET first == {n \in 1..Len(names) : \A m \in 1..(n - 1) : names[m] # names[n]}
        kept == SelectSeq([n \in 1..Len(names) |-> n], LAMBDA n : n \in first)
    IN  [k \in 1..Len(kept) |->
            PackageRowNew(names[kept[k]],
                          LocalsAfter(names, kept[k], lists, enabled, disabled))]

\* user_package when the loop ends: one push per line, in the listing's order.
CollectRows(names, lists, enabled, disabled) ==
    [n \in 1..Len(names) |->
        PackageRowNew(names[n], LocalsAfter(names, n, lists, enabled, disabled))]

\* The comparator of the sort: names compared as they are.
CaseSensitiveLessEq(a, b) == cmp(a.name, b.name) # "Greater"

\* The comparator of the sort: a.name.to_lowercase().cmp(&b.name.to_lowercase())
RowLessEq(a, b) == cmp(to_lowercase(a.name), to_lowercase(b.name)) # "Greater"

\* Insert x behind every element that is not greater than it.
RECURSIVE InsertStable(_, _)
InsertStable(sorted, x) ==
    IF sorted = <<>> THEN <<x>>
    ELSE LET last == sorted[Len(sorted)]
         IN  IF RowLessEq(last, x) THEN Append(sorted, x)
             ELSE Append(InsertStable(SubSeq(sorted, 1, Len(sorted) - 1), x), last)

\* slice::sort_by, a stable sort: the one sorted permutation that keeps equal
\* elements in their order.
RECURSIVE sort_by(_)
sort_by(rows) ==
    IF rows = <<>> THEN <<>>
    ELSE InsertStable(sort_by(SubSeq(rows, 1, Len(rows) - 1)), rows[Len(rows)])

fetch_packages(lists, all, enabled, disabled) ==
    sort_by(CollectRows(lines(all), lists, enabled, disabled))

----------------------------------------------------------------------------
(* generate_backup_name *)

\* An instant of DateTime<T> is [days, secs, offset]: its date in UTC as a
\* number of days since 1970-01-01, its time in UTC as seconds since midnight,
\* and the offset of its timezone in seconds east of UTC.

\* The date in UTC, whatever the timezone of the instant.
UtcDays(t) == t.days

\* The day, counted from 1970-01-01, of the instant in its own timezone.
LocalDays(t) == t.days + ((t.secs + t.offset) \div 86400)

\* The proleptic Gregorian date of a day number.
CivilFromDays(days) ==
    LET z == days + 719468
        era == z \div 146097
        doe == z - era * 146097
        yoe == (doe - doe \div 1460 + doe \div 36524 - doe \div 146096) \div 365
        doy == doe - (365 * yoe + yoe \div 4 - yoe \div 100)
        mp == (5 * doy + 2) \div 153
        d == doy - (153 * mp + 2) \div 5 + 1
        m == IF mp < 10 THEN mp + 3 ELSE mp - 9
        y == yoe + era * 400 + (IF m <= 2 THEN 1 ELSE 0)
    IN  [year |-> y, month |-> m, day |-> d]

RECURSIVE Digits(_)
Digits(n) == IF n < 10 THEN <<48 + n>> ELSE Append(Digits(n \div 10), 48 + (n % 10))

ZeroPadded(n, width) ==
    LET d == Digits(n) IN [i \in 1..(width - Len(d)) |-> 48] \o d

\* %Y: four digits, and a sign before a year outside 0..9999.
FormatYear(y) ==
    IF y < 0 THEN <<45>> \o ZeroPadded(0 - y, 4)
    ELSE IF y > 9999 THEN <<43>> \o ZeroPadded(y, 4)
    ELSE ZeroPadded(y, 4)

\* t.format("%Y%m%d")
FormatYmd(t) ==
    LET date == CivilFromDays(LocalDays(t))
    IN  FormatYear(date.year) \o ZeroPadded(date.month, 2) \o ZeroPadded(date.day, 2)

\* format!("uninstalled_packages_{}.csv", ..)
generate_backup_name(t) ==
    <<117, 110, 105, 110, 115, 116, 97, 108, 108, 101, 100, 95, 112, 97, 99,
      107, 97, 103, 101, 115, 95>> \o FormatYmd(t) \o <<46, 99, 115, 118>>

----------------------------------------------------------------------------
(* csv::Writer, as export_packages uses it: the default builder, which quotes *)
(* a field only when it must and doubles a quote inside a quoted field.       *)

NeedsQuotes(field) ==
    \E i \in 1..Len(field) : field[i] \in {COMMA, QUOTE, CR, LF}

RECURSIVE DoubleQuotes(_)
DoubleQuotes(field) ==
    IF field = <<>> THEN <<>>
    ELSE (IF field[1] = QUOTE THEN <<QUOTE, QUOTE>> ELSE <<field[1]>>)
         \o DoubleQuotes(Tail(field))

EncodeField(field) ==
    IF NeedsQuotes(field) THEN <<QUOTE>> \o DoubleQuotes(field) \o <<QUOTE>>
    ELSE field

\* The bytes Writer::write_record puts into the writer's buffer.
RECURSIVE EncodeFields(_)
EncodeFields(fields) ==
    IF fields = <<>> THEN <<>>
    ELSE EncodeField(fields[1])
         \o (IF Len(fields) > 1 THEN <<COMMA>> ELSE <<>>)
         \o EncodeFields(Tail(fields))

write_record(fields) == EncodeFields(fields) \o <<LF>>

\* ["Package Name", "Description"]
HeaderRecord ==
    << <<80, 97, 99, 107, 97, 103, 101, 32, 78, 97, 109, 101>>,
       <<68, 101, 115, 99, 114, 105, 112, 116, 105, 111, 110>> >>

----------------------------------------------------------------------------
(* The exports' own computations *)

\* description.replace('\n', " ")
ReplaceNewlines(description) ==
    [i \in 1..Len(description) |->
        IF description[i] = LF THEN SP ELSE description[i]]

\* Every record of the list, whatever its state.
AllPackages(packages) == packages

\* .iter().filter(|p| p.state == PackageState::Uninstalled).collect()
UninstalledPackages(packages) ==
    SelectSeq(packages, LAMBDA p : p.state = "Uninstalled")

\* [&package.name, &package.description.replace('\n', " ")]
RowRecord(package) == <<package.name, ReplaceNewlines(package.description)>>

\* The names, each followed by the separator.
RECURSIVE JoinTerminated(_, _)
JoinTerminated(strings, sep) ==
    IF strings = <<>> THEN <<>>
    ELSE strings[1] \o sep \o JoinTerminated(Tail(strings), sep)

\* [String]::join
RECURSIVE join(_, _)
join(strings, sep) ==
    IF strings = <<>> THEN <<>>
    ELSE IF Len(strings) = 1 THEN strings[1]
    ELSE strings[1] \o sep \o join(Tail(strings), sep)

\* .iter().filter(|p| p.selected).map(|p| p.name.clone()).collect().join("\n")
SelectedText(packages) ==
    LET chosen == SelectSeq(packages, LAMBDA p : p.selected)
    IN  join([i \in 1..Len(chosen) |-> chosen[i].name], <<LF>>)

----------------------------------------------------------------------------
(* The files. fs::File::create opens for writing, creates the file or      *)
(* truncates it, and starts at offset 0; a write goes to the offset of the *)
(* handle it is made through, and moves that offset only.                  *)

Absent == [exists |-> FALSE, data |-> <<>>]

Created == [exists |-> TRUE, data |-> <<>>]

\* The file after write_all(bytes) through a handle at `offset`. With no bytes
\* no write is made and the file is as it was; otherwise the bytes go to the
\* offset, and a gap between the end of the file and the offset is filled with
\* NULs.
WriteAt(file, offset, bytes) ==
    IF bytes = <<>> THEN file
    ELSE LET gap == [i \in 1..(offset - Len(file.data)) |-> 0]
             old == file.data \o gap
         IN  [exists |-> TRUE,
              data |-> SubSeq(old, 1, offset) \o bytes
                       \o SubSeq(old, offset + Len(bytes) + 1, Len(old))]

\* What a failing write_all may have written before it failed: any prefix of
\* the bytes but all of them.
PartialWrites(bytes) == {SubSeq(bytes, 1, k) : k \in 0..(Len(bytes) - 1)}

----------------------------------------------------------------------------
(* The export calls. A call is a task: its place (pc), its arguments and   *)
(* its locals. The steps are the calls of the function body that reach the *)
(* file system, in the body's order.                                       *)

Idle ==
    [pc |-> "idle", kind |-> "none", packages |-> <<>>, user |-> 0,
     now |-> [days |-> 0, secs |-> 0, offset |-> 0], backup_file |-> <<>>, file |-> <<>>,
     offset |-> 0, buf |-> <<>>, todo |-> <<>>, result |-> "none",
     before |-> Absent]

\* The record list with `selected` set on the records at the positions of sel.
WithSelection(packages, sel) ==
    [i \in 1..Len(packages) |-> [packages[i] EXCEPT !.selected = (i \in sel)]]

\* export_selection(packages): the text is computed (lines 143-148).
ExportSelectionCall(t, packages) ==
    /\ tasks[t].pc = "idle"
    /\ tasks' = [tasks EXCEPT ![t] =
                    [Idle EXCEPT !.pc = "sel_create", !.kind = "export_selection",
                                 !.packages = packages,
                                 !.file = EXPORT_FILE_NAME,
                                 !.buf = SelectedText(packages),
                                 !.before = fs[EXPORT_FILE_NAME]]]
    /\ UNCHANGED <<fetchVars, phone_packages, fs>>

\* fs::write, first half: File::create(EXPORT_FILE_NAME)
SelCreate(t) ==
    /\ tasks[t].pc = "sel_create"
    /\ \/ /\ fs' = [fs EXCEPT ![tasks[t].file] = Created]
          /\ tasks' = [tasks EXCEPT ![t].pc = "sel_write", ![t].offset = 0]
       \/ /\ tasks' = [tasks EXCEPT ![t].pc = "done", ![t].result = "Err"]
          /\ UNCHANGED fs
    /\ UNCHANGED <<fetchVars, phone_packages>>

\* fs::write, second half: write_all(selected)
SelWrite(t) ==
    /\ tasks[t].pc = "sel_write"
    /\ \/ /\ fs' = [fs EXCEPT ![tasks[t].file] =
                        WriteAt(@, tasks[t].offset, tasks[t].buf)]
          /\ tasks' = [tasks EXCEPT ![t].pc = "done", ![t].result = "Ok",
                                    ![t].offset = @ + Len(tasks[t].buf)]
       \/ /\ tasks[t].buf # <<>>
          /\ \E part \in PartialWrites(tasks[t].buf) :
                /\ fs' = [fs EXCEPT ![tasks[t].file] =
                              WriteAt(@, tasks[t].offset, part)]
                /\ tasks' = [tasks EXCEPT ![t].pc = "done", ![t].result = "Err",
                                          ![t].offset = @ + Len(part)]
    /\ UNCHANGED <<fetchVars, phone_packages>>

\* The system clock is before 1970-01-01T00:00:00Z: the seconds of a day are
\* 0..86399, so the instant is before the epoch when its day is.
BeforeEpoch(now) == now.days < 0

\* generate_backup_name(t) called with an instant of the caller's, as the test
\* backup_name calls it: the name is returned and no file is touched.
GenerateBackupNameCall(t, now) ==
    /\ tasks[t].pc = "idle"
    /\ tasks' = [tasks EXCEPT ![t] =
                    [Idle EXCEPT !.pc = "done", !.kind = "generate_backup_name",
                                 !.now = now,
                                 !.backup_file = generate_backup_name(now)]]
    /\ UNCHANGED <<fetchVars, phone_packages, fs>>

\* export_packages(user, phone_packages): the name of the backup (line 197),
\* `now` being what the system clock shows. chrono::Local::now() panics when
\* the clock is before the epoch: the call ends there, with no name computed
\* and no file created.
ExportPackagesCall(t, user, now) ==
    /\ tasks[t].pc = "idle"
    /\ IF BeforeEpoch(now)
       THEN tasks' = [tasks EXCEPT ![t] =
                        [Idle EXCEPT !.pc = "done", !.kind = "export_packages",
                                     !.user = user, !.now = now,
                                     !.result = "Panic"]]
       ELSE tasks' = [tasks EXCEPT ![t] =
                        [Idle EXCEPT !.pc = "pkg_create",
                                     !.kind = "export_packages",
                                     !.user = user, !.now = now,
                                     !.backup_file = generate_backup_name(now),
                                     !.file = generate_backup_name(now),
                                     !.before = fs[generate_backup_name(now)]]]
    /\ UNCHANGED <<fetchVars, phone_packages, fs>>

\* fs::File::create(backup_file) and Writer::from_writer(file) (lines 199-200)
PkgCreate(t) ==
    /\ tasks[t].pc = "pkg_create"
    /\ \/ /\ fs' = [fs EXCEPT ![tasks[t].file] = Created]
          /\ tasks' = [tasks EXCEPT ![t].pc = "pkg_header", ![t].offset = 0,
                                    ![t].buf = <<>>]
       \/ /\ tasks' = [tasks EXCEPT ![t].pc = "done", ![t].result = "Err"]
          /\ UNCHANGED fs
    /\ UNCHANGED <<fetchVars, phone_packages>>

\* wtr.write_record(["Package Name", "Description"]) (lines 202-203): the record
\* goes to the writer's buffer, which is 8 KiB and holds all that a call writes
\* within the bounds of this model, so that nothing reaches the file before the
\* flush.
PkgWriteHeader(t) ==
    /\ tasks[t].pc = "pkg_header"
    /\ tasks' = [tasks EXCEPT ![t].pc = "pkg_filter",
                              ![t].buf = @ \o write_record(HeaderRecord)]
    /\ UNCHANGED <<fetchVars, phone_packages, fs>>

\* phone_packages[user.index] and the filter (lines 205-208). The index is
\* checked: out of the bounds of the Vec it panics, and the unwinding drops wtr.
PkgFilter(t) ==
    /\ tasks[t].pc = "pkg_filter"
    /\ IF tasks[t].user < Len(phone_packages)
       THEN tasks' = [tasks EXCEPT
                        ![t].pc = "pkg_rows",
                        ![t].packages = phone_packages[tasks[t].user + 1],
                        ![t].todo = UninstalledPackages(
                                        phone_packages[tasks[t].user + 1])]
       ELSE tasks' = [tasks EXCEPT ![t].pc = "pkg_drop", ![t].result = "Panic"]
    /\ UNCHANGED <<fetchVars, phone_packages, fs>>

\* One iteration of the loop over uninstalled_packages (lines 210-213)
PkgWriteRow(t) ==
    /\ tasks[t].pc = "pkg_rows"
    /\ tasks[t].todo # <<>>
    /\ tasks' = [tasks EXCEPT
                    ![t].buf = @ \o write_record(RowRecord(tasks[t].todo[1])),
                    ![t].todo = Tail(@)]
    /\ UNCHANGED <<fetchVars, phone_packages, fs>>

\* wtr.flush() (line 215): write_all of the buffer, which is emptied when all
\* of it is written and kept when the write fails.
PkgFlush(t) ==
    /\ tasks[t].pc = "pkg_rows"
    /\ tasks[t].todo = <<>>
    /\ \/ /\ fs' = [fs EXCEPT ![tasks[t].file] =
                        WriteAt(@, tasks[t].offset, tasks[t].buf)]
          /\ tasks' = [tasks EXCEPT ![t].pc = "pkg_drop", ![t].result = "Ok",
                                    ![t].offset = @ + Len(tasks[t].buf),
                                    ![t].buf = <<>>]
       \/ \E part \in PartialWrites(tasks[t].buf) :
             /\ fs' = [fs EXCEPT ![tasks[t].file] =
                           WriteAt(@, tasks[t].offset, part)]
             /\ tasks' = [tasks EXCEPT ![t].pc = "pkg_drop", ![t].result = "Err",
                                       ![t].offset = @ + Len(part)]
    /\ UNCHANGED <<fetchVars, phone_packages>>

\* The end of the body (line 217, or the `?` or the panic before it): wtr goes
\* out of scope, and Writer's Drop flushes what its buffer still holds, the
\* error ignored.
PkgDrop(t) ==
    /\ tasks[t].pc = "pkg_drop"
    /\ \/ /\ fs' = IF tasks[t].buf = <<>> THEN fs
                   ELSE [fs EXCEPT ![tasks[t].file] =
                            WriteAt(@, tasks[t].offset, tasks[t].buf)]
          /\ tasks' = [tasks EXCEPT ![t].pc = "done",
                                    ![t].offset = @ + Len(tasks[t].buf),
                                    ![t].buf = <<>>]
       \/ /\ tasks[t].buf # <<>>
          /\ \E part \in PartialWrites(tasks[t].buf) :
                /\ fs' = [fs EXCEPT ![tasks[t].file] =
                              WriteAt(@, tasks[t].offset, part)]
                /\ tasks' = [tasks EXCEPT ![t].pc = "done",
                                          ![t].offset = @ + Len(part)]
    /\ UNCHANGED <<fetchVars, phone_packages>>

----------------------------------------------------------------------------
(* The reconciliation on its own: the device and the lists are any of the  *)
(* bounded inputs, and fetch_packages is applied to them.                  *)

MaxListingLen == 5

\* a, b, B and the two line-ending characters
ListingAlphabet == {97, 98, 66, LF, CR}

\* "zeta\nAlpha\nbeta"
ZetaAlphaBeta ==
    <<122, 101, 116, 97, LF, 65, 108, 112, 104, 97, LF, 98, 101, 116, 97>>

Listings == StringsUpTo(ListingAlphabet, MaxListingLen) \cup {ZetaAlphaBeta}

\* The names the two sets and the lists are drawn over: a, B
NamePool == {<<97>>, <<66>>}

\* An entry with an empty description and one with the description "d".
EntryPool ==
    {[description |-> <<>>, list |-> "Google", removal |-> "Recommended"],
     [description |-> <<100>>, list |-> "Oem", removal |-> "Expert"]}

PartialMaps(keys, values) == UNION {[d -> values] : d \in SUBSET keys}

InitFetch ==
    /\ all_system_packages \in Listings
    /\ enabled_system_packages \in SUBSET NamePool
    /\ disabled_system_packages \in SUBSET NamePool
    /\ uad_lists \in PartialMaps(NamePool, EntryPool)
    /\ user_package = <<>>
    /\ fetched = FALSE
    /\ phone_packages = <<>>
    /\ fs = [f \in {EXPORT_FILE_NAME} |-> Absent]
    /\ tasks = <<>>

FetchPackages ==
    /\ ~fetched
    /\ user_package' = fetch_packages(uad_lists, all_system_packages,
                                      enabled_system_packages,
                                      disabled_system_packages)
    /\ fetched' = TRUE
    /\ UNCHANGED <<all_system_packages, enabled_system_packages,
                   disabled_system_packages, uad_lists>>
    /\ UNCHANGED exportVars

NextFetch == FetchPackages

SpecFetch == InitFetch /\ [][NextFetch]_vars

----------------------------------------------------------------------------
(* One export call on its own: the record lists are results of            *)
(* fetch_packages, the selection is the user's, and the directory holds   *)
(* what earlier calls or anything else left in it.                        *)

MaxUserIndex == 2

\* The lists of the exports: a is described by "x\ny", B by "q,\"" followed by
\* a carriage return, and b is not listed.
ExportLists ==
    (<<97>> :> [description |-> <<120, LF, 121>>, list |-> "Google",
                removal |-> "Recommended"])
    @@ (<<66>> :> [description |-> <<113, COMMA, QUOTE, CR>>, list |-> "Oem",
                   removal |-> "Expert"])

\* The listings of a user: B, b, a; a alone; nothing.
ExportListings == {<<66, LF, 98, LF, 97>>, <<97>>, <<>>}

\* The record lists a user may have: B is disabled or not, b is enabled or not.
UserLists ==
    {fetch_packages(ExportLists, all, enabled, disabled) :
        all \in ExportListings, enabled \in {{}, {<<98>>}},
        disabled \in {{}, {<<66>>}}}

\* One user, or two.
PhonePackages == {<<l>> : l \in UserLists} \cup (UserLists \X UserLists)

\* The instants the clock shows at a call: the epoch in UTC, the last second of that
\* day, and the epoch one hour west of Greenwich, which is the day before.
ExportNows ==
    {[days |-> 0, secs |-> 0, offset |-> 0],
     [days |-> 0, secs |-> 86399, offset |-> 0],
     [days |-> 0, secs |-> 0, offset |-> 0 - 3600]}

ExportFiles == {EXPORT_FILE_NAME} \cup {generate_backup_name(n) : n \in ExportNows}

\* "old\n": what a file of the directory holds before the first call.
OldFile == [exists |-> TRUE, data |-> <<111, 108, 100, LF>>]

FetchDone ==
    /\ all_system_packages = <<>>
    /\ enabled_system_packages = {}
    /\ disabled_system_packages = {}
    /\ uad_lists = ExportLists
    /\ user_package = <<>>
    /\ fetched = TRUE

InitExport ==
    /\ FetchDone
    /\ phone_packages \in PhonePackages
    /\ fs \in {[f \in ExportFiles |-> Absent], [f \in ExportFiles |-> OldFile]}
    /\ tasks = <<Idle>>

NextExport ==
    \/ \E t \in DOMAIN tasks : \E u \in 1..Len(phone_packages) :
          \E sel \in SUBSET (1..Len(phone_packages[u])) :
             ExportSelectionCall(t, WithSelection(phone_packages[u], sel))
    \/ \E t \in DOMAIN tasks : SelCreate(t)
    \/ \E t \in DOMAIN tasks : SelWrite(t)
    \/ \E t \in DOMAIN tasks : \E user \in 0..MaxUserIndex : \E now \in ExportNows :
          ExportPackagesCall(t, user, now)
    \/ \E t \in DOMAIN tasks : PkgCreate(t)
    \/ \E t \in DOMAIN tasks : PkgWriteHeader(t)
    \/ \E t \in DOMAIN tasks : PkgFilter(t)
    \/ \E t \in DOMAIN tasks : PkgWriteRow(t)
    \/ \E t \in DOMAIN tasks : PkgFlush(t)
    \/ \E t \in DOMAIN tasks : PkgDrop(t)

SpecExport == InitExport /\ [][NextExport]_vars

----------------------------------------------------------------------------
(* generate_backup_name at many instants, and export_packages with the     *)
(* clock at these instants, for the name of the backup                     *)

\* The ends of February 1900, the day before the epoch, the epoch, the ends of
\* February 1970, 1972, 2000 and 2100, the turn of 1999, and a day of 2026.
NameDays ==
    {0 - 25509, 0 - 25508, 0 - 1, 0, 58, 59, 789, 790, 10956, 10957, 11016,
     11017, 20756, 47540, 47541}

\* The first and the last second of these days in UTC, read in a timezone
\* twelve hours west, in UTC, or fourteen hours east.
NameNows ==
    {[days |-> d, secs |-> s, offset |-> o] :
        d \in NameDays, s \in {0, 86399}, o \in {0 - 43200, 0, 50400}}

NameFiles == {EXPORT_FILE_NAME} \cup {generate_backup_name(n) : n \in NameNows}

InitName ==
    /\ FetchDone
    /\ phone_packages = <<fetch_packages(ExportLists, <<97>>, {}, {})>>
    /\ fs = [f \in NameFiles |-> Absent]
    /\ tasks = <<Idle>>

NextName ==
    \/ \E t \in DOMAIN tasks : \E now \in NameNows : GenerateBackupNameCall(t, now)
    \/ \E t \in DOMAIN tasks : \E now \in NameNows : ExportPackagesCall(t, 0, now)
    \/ \E t \in DOMAIN tasks : PkgCreate(t)
    \/ \E t \in DOMAIN tasks : PkgWriteHeader(t)
    \/ \E t \in DOMAIN tasks : PkgFilter(t)
    \/ \E t \in DOMAIN tasks : PkgWriteRow(t)
    \/ \E t \in DOMAIN tasks : PkgFlush(t)
    \/ \E t \in DOMAIN tasks : PkgDrop(t)

SpecName == InitName /\ [][NextName]_vars

----------------------------------------------------------------------------
(* Two export_selection calls at the same time, each on a thread of the    *)
(* executor: a step of one may come between any two steps of the other.    *)

\* The first user has B, b and a, none enabled or disabled; the second has a.
ConcurrentPhonePackages ==
    <<fetch_packages(ExportLists, <<66, LF, 98, LF, 97>>, {}, {}),
      fetch_packages(ExportLists, <<97>>, {}, {})>>

InitConcurrent ==
    /\ FetchDone
    /\ phone_packages = ConcurrentPhonePackages
    /\ fs = [f \in ExportFiles |-> Absent]
    /\ tasks = <<Idle, Idle>>

\* Two calls of export_selection, each with a selection of its own.
NextConcurrent ==
    \/ \E t \in DOMAIN tasks : \E u \in 1..Len(phone_packages) :
          \E sel \in SUBSET (1..Len(phone_packages[u])) :
             ExportSelectionCall(t, WithSelection(phone_packages[u], sel))
    \/ \E t \in DOMAIN tasks : SelCreate(t)
    \/ \E t \in DOMAIN tasks : SelWrite(t)

SpecConcurrent == InitConcurrent /\ [][NextConcurrent]_vars

----------------------------------------------------------------------------
(* Properties of fetch_packages, under SpecFetch *)

NamesOf(rows) == [i \in 1..Len(rows) |-> rows[i].name]

Occurrences(seq, x) == Cardinality({i \in 1..Len(seq) : seq[i] = x})

Range(seq) == {seq[i] : i \in 1..Len(seq)}

\* C1, as claimed: for every listing, no two records share a name, every name
\* of the listing is the name of a record and every record's name is a name of
\* the listing. It is stated here for the listings without an empty line only,
\* the ones the provider's contract allows, and fails on these already.
C1_OneRecordPerName ==
    (fetched /\ <<>> \notin Range(lines(all_system_packages))) =>
        /\ \A i, j \in 1..Len(user_package) :
              i # j => user_package[i].name # user_package[j].name
        /\ Range(NamesOf(user_package)) = Range(lines(all_system_packages))

\* C1, amended: fetch_packages returns one record per line of the listing. Each
\* name is the name of as many records as the listing has lines equal to it, so
\* of exactly one when the listing holds no line twice, and of none when it is
\* not a line of the listing (a name of the lists or of the two sets only).
C1_OneRecordPerLine ==
    fetched =>
        LET names == lines(all_system_packages)
            got == NamesOf(user_package)
        IN  /\ Len(got) = Len(names)
            /\ \A n \in Range(names) \cup Range(got) \cup NamePool :
                  Occurrences(got, n) = Occurrences(names, n)
            /\ (\A i, j \in 1..Len(names) : i # j => names[i] # names[j])
                  => \A i, j \in 1..Len(got) : i # j => got[i] # got[j]

\* A listing that holds a line twice, a second name once, and a listed, enabled
\* name that is not on the device.
C1_Witness ==
    /\ fetched
    /\ \E n \in Range(lines(all_system_packages)) :
          Occurrences(lines(all_system_packages), n) = 2
    /\ \E n \in Range(lines(all_system_packages)) :
          Occurrences(NamesOf(user_package), n) = 1
    /\ \E n \in DOMAIN uad_lists \cap enabled_system_packages :
          /\ n \notin Range(lines(all_system_packages))
          /\ n \notin Range(NamesOf(user_package))

\* C2: a record is Enabled if its name is in the enabled set (in the disabled
\* set or not), else Disabled if it is in the disabled set, else Uninstalled;
\* the lists have no part in it.
C2_StatePrecedence ==
    fetched =>
        \A i \in 1..Len(user_package) :
            LET r == user_package[i]
            IN  /\ r.state \in {"Enabled", "Disabled", "Uninstalled"}
                /\ r.state = "Enabled" <=> r.name \in enabled_system_packages
                /\ r.state = "Disabled" <=>
                      /\ r.name \notin enabled_system_packages
                      /\ r.name \in disabled_system_packages
                /\ r.state = "Uninstalled" <=>
                      r.name \notin enabled_system_packages \cup disabled_system_packages

\* A listed name of both sets, a name of the disabled set only and a name of
\* neither, all on the device.
C2_Witness ==
    /\ fetched
    /\ \E i, j, k \in 1..Len(user_package) :
          /\ user_package[i].name \in
                enabled_system_packages \cap disabled_system_packages
          /\ user_package[i].name \in DOMAIN uad_lists
          /\ user_package[i].state = "Enabled"
          /\ user_package[j].name \in
                disabled_system_packages \ enabled_system_packages
          /\ user_package[j].state = "Disabled"
          /\ user_package[k].state = "Uninstalled"

\* C3: a record of a name the lists do not hold has the default description and
\* Unlisted twice; a record of a listed name has the entry's list and removal,
\* and the entry's description unless that is empty, when it has the default.
C3_Classification ==
    fetched =>
        \A i \in 1..Len(user_package) :
            LET r == user_package[i]
            IN  IF r.name \in DOMAIN uad_lists
                THEN /\ r.uad_list = uad_lists[r.name].list
                     /\ r.removal = uad_lists[r.name].removal
                     /\ r.description =
                           IF uad_lists[r.name].description = <<>>
                           THEN NO_DESCRIPTION
                           ELSE uad_lists[r.name].description
                ELSE /\ r.uad_list = "Unlisted"
                     /\ r.removal = "Unlisted"
                     /\ r.description = NO_DESCRIPTION

\* In the listing, a name with a described entry comes right before a name with
\* an entry without description, which comes right before a name without entry.
C3_Witness ==
    /\ fetched
    /\ LET names == lines(all_system_packages)
       IN  \E n \in 1..(Len(names) - 2) :
              /\ names[n] \in DOMAIN uad_lists
              /\ uad_lists[names[n]].description # <<>>
              /\ names[n + 1] \in DOMAIN uad_lists
              /\ uad_lists[names[n + 1]].description = <<>>
              /\ names[n + 2] \notin DOMAIN uad_lists
    /\ \E i \in 1..Len(user_package) :
          /\ user_package[i].name \notin DOMAIN uad_lists
          /\ user_package[i].description = NO_DESCRIPTION

\* The lines of the listing, or the names of the records, that are `key` when
\* lowercased.
WithKey(names, key) == SelectSeq(names, LAMBDA n : to_lowercase(n) = key)

\* "Alpha", "beta", "zeta"
AlphaBetaZeta ==
    <<SubSeq(ZetaAlphaBeta, 6, 10), SubSeq(ZetaAlphaBeta, 12, 15),
      SubSeq(ZetaAlphaBeta, 1, 4)>>

\* C4: the records are in the order of their lowercased names, the records
\* whose names are equal ignoring case are in the order of the listing, and
\* the listing zeta, Alpha, beta gives Alpha, beta, zeta.
C4_SortedStable ==
    fetched =>
        LET got == NamesOf(user_package)
            names == lines(all_system_packages)
        IN  /\ \A i \in 1..(Len(got) - 1) :
                  cmp(to_lowercase(got[i]), to_lowercase(got[i + 1])) # "Greater"
            /\ \A n \in Range(names) \cup Range(got) :
                  WithKey(got, to_lowercase(n)) = WithKey(names, to_lowercase(n))
            /\ all_system_packages = ZetaAlphaBeta => got = AlphaBetaZeta

\* The listing b, B, a comes out as a, b, B.
C4_Witness ==
    /\ fetched
    /\ lines(all_system_packages) = << <<98>>, <<66>>, <<97>> >>
    /\ NamesOf(user_package) = << <<97>>, <<98>>, <<66>> >>

----------------------------------------------------------------------------
(* Properties of the exports, under SpecExport *)

\* The records of a CSV text, as a reader of the format finds them: a record
\* ends at a newline outside quotes, a field at a comma outside quotes, and a
\* doubled quote inside a quoted field is one quote.
RECURSIVE ParseCsvFrom(_, _, _, _, _, _)
ParseCsvFrom(s, i, mode, field, record, records) ==
    IF i > Len(s)
    THEN IF mode = "start" /\ record = <<>> THEN records
         ELSE Append(records, Append(record, field))
    ELSE LET c == s[i]
         IN  IF mode = "quoted"
             THEN IF c = QUOTE
                  THEN ParseCsvFrom(s, i + 1, "quote", field, record, records)
                  ELSE ParseCsvFrom(s, i + 1, "quoted", Append(field, c), record,
                                    records)
             ELSE IF mode = "quote" /\ c = QUOTE
             THEN ParseCsvFrom(s, i + 1, "quoted", Append(field, c), record, records)
             ELSE IF c = COMMA
             THEN ParseCsvFrom(s, i + 1, "field", <<>>, Append(record, field),
                               records)
             ELSE IF c = LF
             THEN ParseCsvFrom(s, i + 1, "start", <<>>, <<>>,
                               Append(records, Append(record, field)))
             ELSE IF c = QUOTE /\ mode \in {"start", "field"}
             THEN ParseCsvFrom(s, i + 1, "quoted", field, record, records)
             ELSE ParseCsvFrom(s, i + 1, "plain", Append(field, c), record, records)

ParseCsv(s) == ParseCsvFrom(s, 1, "start", <<>>, <<>>, <<>>)

\* The pieces of s between its newlines (str::split), empty pieces kept.
RECURSIVE SplitLines(_)
SplitLines(s) ==
    LET i == Find(s, LF)
    IN  IF i = 0 THEN <<s>>
        ELSE <<SubSeq(s, 1, i - 1)>> \o SplitLines(SubSeq(s, i + 1, Len(s)))

ExportPackagesTasks == {t \in DOMAIN tasks : tasks[t].kind = "export_packages"}

ExportSelectionTasks == {t \in DOMAIN tasks : tasks[t].kind = "export_selection"}

Returned(t, result) == tasks[t].pc = "done" /\ tasks[t].result = result

\* C5: when export_packages has returned Ok, the backup is the header row, then
\* a row for each Uninstalled record of the user's list and for nothing else,
\* in the list's order; a row's description is the record's with a space for
\* each newline, and the text has as many lines as it has rows.
C5_BackupRows ==
    \A t \in ExportPackagesTasks :
        Returned(t, "Ok") =>
            LET text == fs[tasks[t].file].data
                rows == ParseCsv(text)
                list == phone_packages[tasks[t].user + 1]
                want == SelectSeq(list, LAMBDA p : p.state = "Uninstalled")
            IN  /\ fs[tasks[t].file].exists
                /\ Len(rows) = 1 + Len(want)
                /\ rows[1] = HeaderRecord
                /\ \A k \in 1..Len(want) :
                      /\ rows[k + 1][1] = want[k].name
                      /\ Len(rows[k + 1][2]) = Len(want[k].description)
                      /\ \A i \in 1..Len(want[k].description) :
                            rows[k + 1][2][i] =
                               IF want[k].description[i] = LF THEN SP
                               ELSE want[k].description[i]
                /\ Occurrences(text, LF) = Len(rows)

\* Of two users, the list of the one asked for has an Uninstalled record with
\* a newline in its description, an Uninstalled one with a comma and a quote,
\* and one that is Enabled; the other user's list is another one, and the file
\* held something before.
C5_Witness ==
    \E t \in ExportPackagesTasks :
        /\ Returned(t, "Ok")
        /\ Len(phone_packages) = 2
        /\ phone_packages[1] # phone_packages[2]
        /\ tasks[t].before = OldFile
        /\ \E i, j, k \in 1..Len(tasks[t].packages) :
              /\ tasks[t].packages[i].state = "Uninstalled"
              /\ LF \in Range(tasks[t].packages[i].description)
              /\ tasks[t].packages[j].state = "Uninstalled"
              /\ QUOTE \in Range(tasks[t].packages[j].description)
              /\ tasks[t].packages[k].state = "Enabled"
        /\ Len(ParseCsv(fs[tasks[t].file].data)) = 3

\* C6: when export_selection has returned Ok, the file holds the names of the
\* selected records, in the order of the collection, with one newline between
\* two names and none after the last, and nothing else; it is there and empty
\* when no record is selected.
C6_SelectionText ==
    \A t \in ExportSelectionTasks :
        Returned(t, "Ok") =>
            LET text == fs[EXPORT_FILE_NAME].data
                chosen == SelectSeq(tasks[t].packages, LAMBDA p : p.selected)
            IN  /\ fs[EXPORT_FILE_NAME].exists
                /\ chosen = <<>> => text = <<>>
                /\ chosen # <<>> => SplitLines(text) = NamesOf(chosen)

\* Two records are selected, one of them Disabled, a third one is not, and the
\* file held more before than it holds now.
C6_Witness ==
    \E t \in ExportSelectionTasks :
        /\ Returned(t, "Ok")
        /\ tasks[t].before = OldFile
        /\ Len(fs[EXPORT_FILE_NAME].data) < Len(OldFile.data)
        /\ \E i, j, k \in 1..Len(tasks[t].packages) :
              /\ i # j
              /\ tasks[t].packages[i].selected
              /\ tasks[t].packages[i].state = "Disabled"
              /\ tasks[t].packages[j].selected
              /\ ~tasks[t].packages[k].selected

\* The whole backup of a call: the header and the rows.
RECURSIVE EncodeRows(_)
EncodeRows(packages) ==
    IF packages = <<>> THEN <<>>
    ELSE write_record(RowRecord(packages[1])) \o EncodeRows(Tail(packages))

\* C7: when export_packages has returned an error, the backup file is as it
\* was before the call (not created, or left as it was), or it is complete.
C7_NoPartialBackup ==
    \A t \in ExportPackagesTasks :
        Returned(t, "Err") =>
            \/ fs[tasks[t].file] = tasks[t].before
            \/ /\ tasks[t].user < Len(phone_packages)
               /\ fs[tasks[t].file].data =
                     write_record(HeaderRecord)
                     \o EncodeRows(UninstalledPackages(
                                       phone_packages[tasks[t].user + 1]))

\* C8: an export call that has ended has returned Ok or an error; it has not
\* panicked.
C8_ResultNotFault ==
    \A t \in ExportPackagesTasks \cup ExportSelectionTasks :
        tasks[t].pc = "done" => tasks[t].result \in {"Ok", "Err"}

----------------------------------------------------------------------------
(* The name of the backup, under SpecName *)

IsLeapYear(y) == y % 4 = 0 /\ (y % 100 # 0 \/ y % 400 = 0)

DaysInMonth(y, m) ==
    IF m = 2 THEN (IF IsLeapYear(y) THEN 29 ELSE 28)
    ELSE IF m \in {4, 6, 9, 11} THEN 30 ELSE 31

RECURSIVE DaysBeforeMonth(_, _)
DaysBeforeMonth(y, m) ==
    IF m = 1 THEN 0 ELSE DaysBeforeMonth(y, m - 1) + DaysInMonth(y, m - 1)

\* The leap years before year y, counted from year 1.
LeapYearsBefore(y) == (y - 1) \div 4 - (y - 1) \div 100 + (y - 1) \div 400

\* The day number of a date, 1970-01-01 being day 0.
DayNumber(y, m, d) ==
    365 * (y - 1970) + LeapYearsBefore(y) - LeapYearsBefore(1970)
    + DaysBeforeMonth(y, m) + d - 1

IsDigit(c) == c >= 48 /\ c <= 57

\* The number the decimal digits of s write.
RECURSIVE Decimal(_)
Decimal(s) ==
    IF s = <<>> THEN 0
    ELSE 10 * Decimal(SubSeq(s, 1, Len(s) - 1)) + (s[Len(s)] - 48)

\* The instant is on the date y-m-d in its own timezone: it is at least 0 and
\* less than 86400 seconds after the midnight that starts this date there. An
\* offset is less than a day, so the date in UTC is this date or next to it.
OnDate(t, y, m, d) ==
    LET ahead == t.days - DayNumber(y, m, d)
    IN  /\ ahead \in {0 - 1, 0, 1}
        /\ ahead * 86400 + t.secs + t.offset >= 0
        /\ ahead * 86400 + t.secs + t.offset < 86400

\* "uninstalled_packages_19700101.csv"
EpochBackupName ==
    <<117, 110, 105, 110, 115, 116, 97, 108, 108, 101, 100, 95, 112, 97, 99,
      107, 97, 103, 101, 115, 95, 49, 57, 55, 48, 48, 49, 48, 49, 46, 99, 115,
      118>>

\* The calls that have a backup name: those of generate_backup_name, and those
\* of export_packages in which Local::now() has returned.
NamingTasks ==
    {t \in DOMAIN tasks :
        \/ tasks[t].kind = "generate_backup_name"
        \/ tasks[t].kind = "export_packages" /\ ~BeforeEpoch(tasks[t].now)}

\* C9: the name generate_backup_name returns, to its caller or to
\* export_packages, is "uninstalled_packages_", eight digits and ".csv"; the
\* digits are the year, the month and the day of a date of the calendar, the
\* one the instant falls on in its own timezone; the epoch in UTC gives
\* uninstalled_packages_19700101.csv; an instant of the same date gives the
\* same name; and the file export_packages creates has this name, computed
\* from the local time at the start of the call.
C9_BackupName ==
    \A t \in NamingTasks :
        LET name == tasks[t].backup_file
            now == tasks[t].now
            y == Decimal(SubSeq(name, 22, 25))
            m == Decimal(SubSeq(name, 26, 27))
            d == Decimal(SubSeq(name, 28, 29))
        IN  /\ Len(name) = 33
            /\ SubSeq(name, 1, 21) = SubSeq(EpochBackupName, 1, 21)
            /\ SubSeq(name, 30, 33) = SubSeq(EpochBackupName, 30, 33)
            /\ \A i \in 22..29 : IsDigit(name[i])
            /\ m \in 1..12
            /\ d \in 1..DaysInMonth(y, m)
            /\ OnDate(now, y, m, d)
            /\ now = [days |-> 0, secs |-> 0, offset |-> 0] => name = EpochBackupName
            /\ \A n \in NameNows :
                  OnDate(n, y, m, d) => generate_backup_name(n) = name
            /\ tasks[t].kind = "generate_backup_name" =>
                  \A f \in DOMAIN fs : ~fs[f].exists
            /\ tasks[t].kind = "export_packages" =>
                  /\ tasks[t].file = name
                  /\ tasks[t].pc \notin {"pkg_create", "done"} => fs[name].exists
                  /\ \A f \in DOMAIN fs : f # name => ~fs[f].exists

\* The call made at the epoch in UTC has created
\* uninstalled_packages_19700101.csv and has returned Ok.
C9_Witness ==
    \E t \in ExportPackagesTasks :
        /\ tasks[t].now = [days |-> 0, secs |-> 0, offset |-> 0]
        /\ tasks[t].backup_file = EpochBackupName
        /\ Returned(t, "Ok")
        /\ fs[EpochBackupName].exists

----------------------------------------------------------------------------
(* Two calls at the same time, under SpecConcurrent *)

\* What a call that returns Ok writes when no other call runs.
OutputOf(t) ==
    IF tasks[t].kind = "export_selection" THEN SelectedText(tasks[t].packages)
    ELSE write_record(HeaderRecord)
         \o EncodeRows(UninstalledPackages(phone_packages[tasks[t].user + 1]))

\* C10: when two calls on the same file have both returned Ok, the file holds
\* what the one or the other writes, as it does when one call runs after the
\* other; it never holds a mix of the two.
C10_NoMixedFile ==
    \A t1, t2 \in DOMAIN tasks :
        (/\ t1 # t2
         /\ Returned(t1, "Ok")
         /\ Returned(t2, "Ok")
         /\ tasks[t1].file = tasks[t2].file)
        => fs[tasks[t1].file].data \in {OutputOf(t1), OutputOf(t2)}

====
